---------------------------- MODULE Spec2Model ----------------------------
(***************************************************************************)
(* Panel defect analysis (sheldcoop/aoi-app): the quadrant classifier and  *)
(* coordinate mapper of src/data_handler.py, the defect-view figure of     *)
(* src/plotting.py and src/views.py, the Streamlit session logic of app.py *)
(* and pages/, and the per-quadrant breakdowns of src/views.py and         *)
(* src/reporting.py.                                                       *)
(*                                                                         *)
(* Numbers.  Every length is an exact integer count of a stated unit.      *)
(*   - np.random.rand() in [0,1) is k / RandDen for k in 0..RandDen-1.     *)
(*   - A length in cells is counted in units of 1/JitterDen of a cell,     *)
(*     JitterDen = 10 * RandDen, so rand*0.8 + 0.1 is exactly 8k + RandDen *)
(*     units; 0.1 cell is RandDen units and 0.9 cell is 9 * RandDen units. *)
(*   - In the scaled layout cell_size is the fraction num/den; a scaled    *)
(*     length is counted in units of 1/(den * JitterDen) figure units.     *)
(*   - A numeric cell of an uploaded sheet is counted in halves (3 is the  *)
(*     number 1.5), so that astype(int) has something to truncate.         *)
(* Floating-point rounding is not modelled.                                *)
(***************************************************************************)
EXTENDS Integers, Sequences, FiniteSets, TLC

\* ------------------------------------------------------------------ bounds
\* Largest panel_rows / panel_cols explored (the widgets allow 2..50).
MaxPanel == 3
\* The records of the sample data (500 in the source) and how many of its
\* defect types are drawn.
number_of_defects == 1
SampleTypeCount == 1
\* The records of a frame handed to a breakdown.
MaxRecords == 2
\* The records of a frame handed to a Pareto ranking.
MaxParetoRecords == 3
\* The largest offset np.random.randint adds to its low end in a session.
MaxSampleOffset == 0
\* Largest gap_size explored (app.py fixes it at 1, load_data takes any).
MaxGap == 1
\* Grid of the random source: rand takes the values k / RandDen.
RandDen == 2

\* ------------------------------------------------------------ random source
RandVals == 0 .. (RandDen - 1)

JitterDen == 10 * RandDen

\* np.random.rand(n): one draw per row.
RandVec(n) == [1 .. n -> RandVals]

jitter_unscaled(rand) == 10 * rand

\* rand * 0.8 + 0.1, in units of 1/JitterDen.
jitter_of(rand) == 8 * rand + RandDen

\* ------------------------------------------------------- uploaded sheet
required_columns == {"DEFECT_TYPE", "UNIT_INDEX_X", "UNIT_INDEX_Y"}

\* A whole number as a sheet cell (counted in halves).
Whole(n) == 2 * n

\* astype(int): truncation toward zero of a value counted in halves.
astype_int(h) == IF h >= 0 THEN h \div 2 ELSE -((-h) \div 2)

\* str.strip() on the DEFECT_TYPE strings the sheets below hold.
str_strip(s) ==
    CASE s = " Nick" -> "Nick"
      [] s = "Short " -> "Short"
      [] OTHER -> s

\* ------------------------------------------------------ quadrant classifier
\* np.select(conditions, choices, default): the choice of the first
\* condition that holds, the default when none does.
np_select(conditions, choices, default) ==
    IF \E i \in DOMAIN conditions : conditions[i]
    THEN choices[CHOOSE i \in DOMAIN conditions :
                    /\ conditions[i]
                    /\ \A j \in DOMAIN conditions : j < i => ~conditions[j]]
    ELSE default

Quadrant_swapped(x, y, panel_rows, panel_cols) ==
    np_select(<< (x < panel_cols) /\ (y < panel_rows),
                 (x < panel_cols) /\ (y >= panel_rows),
                 (x >= panel_cols) /\ (y < panel_rows),
                 (x >= panel_cols) /\ (y >= panel_rows) >>,
              << "Q1", "Q2", "Q3", "Q4" >>, "Other")

Quadrant(x, y, panel_rows, panel_cols) ==
    np_select(<< (x < panel_rows) /\ (y < panel_cols),
                 (x < panel_rows) /\ (y >= panel_cols),
                 (x >= panel_rows) /\ (y < panel_cols),
                 (x >= panel_rows) /\ (y >= panel_cols) >>,
              << "Q1", "Q2", "Q3", "Q4" >>, "Other")

\* -------------------------------------------------------- coordinate mapper
\* plot_x of load_data for one row, in units of 1/JitterDen of a cell:
\* plot_x_base + x_offset + rand * 0.8 + 0.1.
plot_x_nooffset(y, panel_cols, gap_size, rand) ==
    (y % panel_cols) * JitterDen + jitter_of(rand)

plot_x_of(y, panel_cols, gap_size, rand) ==
    LET plot_x_base == y % panel_cols
        x_offset == IF y >= panel_cols THEN panel_cols + gap_size ELSE 0
    IN  (plot_x_base + x_offset) * JitterDen + jitter_of(rand)

plot_y_nomod(x, panel_rows, gap_size, rand) ==
    LET y_offset == IF x >= panel_rows THEN panel_rows + gap_size ELSE 0
    IN  (x + y_offset) * JitterDen + jitter_of(rand)

plot_y_of(x, panel_rows, gap_size, rand) ==
    LET plot_y_base == x % panel_rows
        y_offset == IF x >= panel_rows THEN panel_rows + gap_size ELSE 0
    IN  (plot_y_base + y_offset) * JitterDen + jitter_of(rand)

\* The common processing of load_data on cleaned rows: QUADRANT, plot_x and
\* plot_y are added to every row; rx and ry are the two rand vectors.
classify_and_map(rows, panel_rows, panel_cols, gap_size, rx, ry) ==
    [i \in DOMAIN rows |->
        [DEFECT_TYPE  |-> rows[i].DEFECT_TYPE,
         UNIT_INDEX_X |-> rows[i].UNIT_INDEX_X,
         UNIT_INDEX_Y |-> rows[i].UNIT_INDEX_Y,
         QUADRANT     |-> Quadrant(rows[i].UNIT_INDEX_X, rows[i].UNIT_INDEX_Y,
                                   panel_rows, panel_cols),
         plot_x       |-> plot_x_of(rows[i].UNIT_INDEX_Y, panel_cols, gap_size, rx[i]),
         plot_y       |-> plot_y_of(rows[i].UNIT_INDEX_X, panel_rows, gap_size, ry[i])]]

\* The production path of load_data up to the common processing: an empty
\* frame when a required column is missing, else the required columns of
\* the rows without a missing value, indices as int, types stripped.
read_and_clean(uploaded_file) ==
    IF ~(required_columns \subseteq uploaded_file.columns) THEN <<>>
    ELSE LET NotNa(r) == r.na \cap required_columns = {}
             kept == SelectSeq(uploaded_file.rows, NotNa)
         IN  [i \in DOMAIN kept |->
                [DEFECT_TYPE  |-> str_strip(kept[i].DEFECT_TYPE),
                 UNIT_INDEX_X |-> astype_int(kept[i].UNIT_INDEX_X),
                 UNIT_INDEX_Y |-> astype_int(kept[i].UNIT_INDEX_Y)]]

\* No file: the value load_data tests with "is not None".
None == [present |-> FALSE]

\* What load_data reports with st.error: nothing for no file and for a sheet
\* with every required column, else one message, which lists the required
\* columns (all of them, whichever is missing).
load_data_error_silent(uploaded_file) == {}

load_data_error(uploaded_file) ==
    IF uploaded_file # None /\ ~(required_columns \subseteq uploaded_file.columns)
    THEN {[missing_one_of |-> required_columns]}
    ELSE {}

\* The nine defect types of the sample data, in the order of the source.
sample_defect_types ==
    << "Nick", "Short", "Missing Feature", "Cut", "Fine Short",
       "Pad Violation", "Island", "Cut/Short", "Nick/Protrusion" >>

\* A generator that draws UNIT_INDEX_X without regard to the quadrant.
sample_rows_anywhere(draws, panel_rows, panel_cols) ==
    LET randint(lo, hi, u) == lo + u
    IN  [i \in DOMAIN draws |->
          LET q == draws[i].q
          IN  [DEFECT_TYPE  |-> sample_defect_types[draws[i].t],
               UNIT_INDEX_X |-> randint(0, 2 * panel_rows, draws[i].ux),
               UNIT_INDEX_Y |->
                   IF q \in {"Q1", "Q3"} THEN randint(0, panel_cols, draws[i].uy)
                   ELSE randint(panel_cols, 2 * panel_cols, draws[i].uy)]]

\* The fallback path of load_data: one record per draw, its indices drawn
\* inside the drawn quadrant.  A draw is [q, t, ux, uy]: the quadrant, the
\* position of the type in sample_defect_types, and np.random.randint(lo, hi)
\* as lo + u for u in 0 .. hi-lo-1.
sample_rows(draws, panel_rows, panel_cols) ==
    LET total_rows == 2 * panel_rows
        total_cols == 2 * panel_cols
        randint(lo, hi, u) == lo + u
    IN  [i \in DOMAIN draws |->
          LET q == draws[i].q
          IN  [DEFECT_TYPE  |-> sample_defect_types[draws[i].t],
               UNIT_INDEX_X |->
                   IF q \in {"Q1", "Q2"} THEN randint(0, panel_rows, draws[i].ux)
                   ELSE randint(panel_rows, total_rows, draws[i].ux),
               UNIT_INDEX_Y |->
                   IF q \in {"Q1", "Q3"} THEN randint(0, panel_cols, draws[i].uy)
                   ELSE randint(panel_cols, total_cols, draws[i].uy)]]

\* The rows load_data classifies: read from the sheet, or generated.
rows_of(uploaded_file, draws, panel_rows, panel_cols) ==
    IF uploaded_file # None THEN read_and_clean(uploaded_file)
    ELSE sample_rows(draws, panel_rows, panel_cols)

\* load_data(uploaded_file, panel_rows, panel_cols, gap_size); draws, rx and
\* ry are what it draws at random.
load_data(uploaded_file, panel_rows, panel_cols, gap_size, draws, rx, ry) ==
    classify_and_map(rows_of(uploaded_file, draws, panel_rows, panel_cols),
                     panel_rows, panel_cols, gap_size, rx, ry)

\* A sheet holding the required columns and the given rows, nothing missing.
Sheet(rows) ==
    [present |-> TRUE,
     columns |-> required_columns,
     rows    |-> [i \in DOMAIN rows |->
                    [DEFECT_TYPE  |-> rows[i].DEFECT_TYPE,
                     UNIT_INDEX_X |-> Whole(rows[i].UNIT_INDEX_X),
                     UNIT_INDEX_Y |-> Whole(rows[i].UNIT_INDEX_Y),
                     na           |-> {}]]]

\* ------------------------------------------------------------- stored jitter
\* full_df['jitter_x'] = np.random.rand(len(full_df)) * 0.8 + 0.1, and the
\* same for jitter_y: the frame that is stored as processed_df.
add_jitter(frame, jx, jy) ==
    [i \in DOMAIN frame |->
        [jitter_x |-> jitter_of(jx[i]), jitter_y |-> jitter_of(jy[i])] @@ frame[i]]

\* df.loc[:, 'plot_x'] = px; df.loc[:, 'plot_y'] = py on a copy of the frame.
set_plot(frame, px, py) ==
    [i \in DOMAIN frame |-> [plot_x |-> px[i], plot_y |-> py[i]] @@ frame[i]]

\* display_df: the rows of the selected quadrant, or a copy of all rows.
display_of(frame, quadrant_selection) ==
    IF quadrant_selection # "All"
    THEN LET InQuad(r) == r.QUADRANT = quadrant_selection
         IN  SelectSeq(frame, InQuad)
    ELSE frame

\* ------------------------------------------------------------ frame objects
\* A DataFrame object: its identity and the frame it holds.  The stored
\* processed_df is object 0.
stored_object(frame) == [id |-> 0, frame |-> frame]

\* DataFrame.copy(): a new object holding the same frame.
pandas_copy_alias(obj) == obj

pandas_copy(obj) == [id |-> obj.id + 1, frame |-> obj.frame]

\* display_df of app.py: processed_df[processed_df['QUADRANT'] == selection],
\* a new object, or processed_df.copy().
display_object(obj, quadrant_selection) ==
    IF quadrant_selection # "All"
    THEN [id |-> obj.id + 1, frame |-> display_of(obj.frame, quadrant_selection)]
    ELSE pandas_copy(obj)

\* The stored frame after a defect view was built from display_df: the view
\* writes plot_x and plot_y into df = display_df.copy() when display_df is
\* not empty, and the stored frame has them if df is the stored object.
stored_after_render(stored, display_df, figure) ==
    LET written == pandas_copy(display_df)
    IN  IF display_df.frame # << >> /\ written.id = stored.id
        THEN figure.df
        ELSE stored.frame

\* ------------------------------------------------------------- scaled layout
FIGURE_WIDTH == 800
FIGURE_HEIGHT == 800
MARGIN == 20
NUM_PANELS_X == 2
NUM_PANELS_Y == 2

\* Step 1 of create_dynamic_grid: cell_size = min(cell_size_for_width,
\* cell_size_for_height), kept as the fraction num/den.
cell_size_of(panel_rows, panel_cols, gap_cells) ==
    LET plottable_width_px  == FIGURE_WIDTH - MARGIN - MARGIN
        plottable_height_px == FIGURE_HEIGHT - MARGIN - MARGIN
        total_cell_units_x  == (NUM_PANELS_X * panel_cols) + (NUM_PANELS_X + 1) * gap_cells
        total_cell_units_y  == (NUM_PANELS_Y * panel_rows) + (NUM_PANELS_Y + 1) * gap_cells
    IN  IF plottable_width_px * total_cell_units_y <= plottable_height_px * total_cell_units_x
        THEN [num |-> plottable_width_px, den |-> total_cell_units_x]
        ELSE [num |-> plottable_height_px, den |-> total_cell_units_y]

\* n cells times cell_size, in units of 1/(cell_size.den * JitterDen).
Cells(n, cell_size) == n * cell_size.num * JitterDen

\* panel_origins of create_dynamic_grid, by quadrant, for a panel of
\* panel_width_units x panel_height_units and a gap of gap_size_units.
panel_origins(panel_width_units, panel_height_units, gap_size_units) ==
    [Q1 |-> [x |-> 0, y |-> 0],
     Q2 |-> [x |-> panel_width_units + gap_size_units, y |-> 0],
     Q3 |-> [x |-> 0, y |-> panel_height_units + gap_size_units],
     Q4 |-> [x |-> panel_width_units + gap_size_units,
             y |-> panel_height_units + gap_size_units]]

\* create_dynamic_grid: the cell size, the four panel rectangles and the
\* axis ranges of the 'All' figure.
create_dynamic_grid(panel_rows, panel_cols, gap_cells) ==
    LET cell_size == cell_size_of(panel_rows, panel_cols, gap_cells)
        panel_width_units  == Cells(panel_cols, cell_size)
        panel_height_units == Cells(panel_rows, cell_size)
        gap_size_units     == Cells(gap_cells, cell_size)
        origins == panel_origins(panel_width_units, panel_height_units, gap_size_units)
        total_panel_width  == (NUM_PANELS_X * panel_width_units)
                                + (NUM_PANELS_X - 1) * gap_size_units
        total_panel_height == (NUM_PANELS_Y * panel_height_units)
                                + (NUM_PANELS_Y - 1) * gap_size_units
    IN  [cell_size      |-> cell_size,
         gap_size_units |-> gap_size_units,
         shapes |-> [q \in {"Q1", "Q2", "Q3", "Q4"} |->
                        [x0 |-> origins[q].x, y0 |-> origins[q].y,
                         x1 |-> origins[q].x + panel_width_units,
                         y1 |-> origins[q].y + panel_height_units]],
         x_axis_range |-> << -gap_size_units, total_panel_width + gap_size_units >>,
         y_axis_range |-> << -gap_size_units, total_panel_height + gap_size_units >>]

\* _calculate_defect_coordinates: plot_x and plot_y of every row in the
\* scaled layout, from the stored jitter.
calculate_defect_coordinates(frame, panel_rows, panel_cols, cell_size, gap_size_units) ==
    LET panel_width_units  == Cells(panel_cols, cell_size)
        panel_height_units == Cells(panel_rows, cell_size)
        plot_x_base == [i \in DOMAIN frame |->
                           Cells(frame[i].UNIT_INDEX_Y % panel_cols, cell_size)]
        plot_y_base == [i \in DOMAIN frame |->
                           Cells(frame[i].UNIT_INDEX_X % panel_rows, cell_size)]
        x_offset == [i \in DOMAIN frame |->
                        IF frame[i].UNIT_INDEX_Y >= panel_cols
                        THEN panel_width_units + gap_size_units ELSE 0]
        y_offset == [i \in DOMAIN frame |->
                        IF frame[i].UNIT_INDEX_X >= panel_rows
                        THEN panel_height_units + gap_size_units ELSE 0]
        jitter_x == [i \in DOMAIN frame |-> frame[i].jitter_x * cell_size.num]
        jitter_y == [i \in DOMAIN frame |-> frame[i].jitter_y * cell_size.num]
    IN  set_plot(frame,
                 [i \in DOMAIN frame |-> plot_x_base[i] + x_offset[i] + jitter_x[i]],
                 [i \in DOMAIN frame |-> plot_y_base[i] + y_offset[i] + jitter_y[i]])

\* The single-quadrant branch: local column and row plus the stored jitter,
\* in units of 1/JitterDen of a cell.
zoom_swapped(frame, panel_rows, panel_cols) ==
    set_plot(frame,
        [i \in DOMAIN frame |->
            (frame[i].UNIT_INDEX_X % panel_cols) * JitterDen + frame[i].jitter_x],
        [i \in DOMAIN frame |->
            (frame[i].UNIT_INDEX_Y % panel_rows) * JitterDen + frame[i].jitter_y])

zoom_coordinates(frame, panel_rows, panel_cols) ==
    set_plot(frame,
        [i \in DOMAIN frame |->
            (frame[i].UNIT_INDEX_Y % panel_cols) * JitterDen + frame[i].jitter_x],
        [i \in DOMAIN frame |->
            (frame[i].UNIT_INDEX_X % panel_rows) * JitterDen + frame[i].jitter_y])

\* defect_style_map of config.py: the styled types and their colours, in the
\* order of the dictionary.
defect_style_map ==
    << [dtype |-> "Nick", color |-> "magenta"],
       [dtype |-> "Short", color |-> "red"],
       [dtype |-> "Missing Feature", color |-> "lime"],
       [dtype |-> "Cut", color |-> "cyan"],
       [dtype |-> "Fine Short", color |-> "#DDA0DD"],
       [dtype |-> "Pad Violation", color |-> "grey"],
       [dtype |-> "Island", color |-> "orange"],
       [dtype |-> "Cut/Short", color |-> "#00BFFF"],
       [dtype |-> "Nick/Protrusion", color |-> "yellow"] >>

\* create_defect_traces: for each entry of defect_style_map, in order, the
\* rows of that type as one trace, when there are any.
create_defect_traces(frame) ==
    LET dff(dtype) == LET OfType(r) == r.DEFECT_TYPE = dtype
                      IN  SelectSeq(frame, OfType)
        styled == [k \in DOMAIN defect_style_map |->
                     [name   |-> defect_style_map[k].dtype,
                      color  |-> defect_style_map[k].color,
                      points |-> dff(defect_style_map[k].dtype)]]
        NotEmpty(trace) == trace.points # << >>
    IN  SelectSeq(styled, NotEmpty)

\* The traces added to the figure: none for an empty display_df.
defect_traces_of(display_df, plotted) ==
    IF display_df # << >> THEN create_defect_traces(plotted) ELSE << >>

\* create_defect_view_figure: the plotted frame, its traces, the defect count
\* of the title and the axis ranges, for 'All' and for one quadrant.
create_defect_view_figure(display_df, panel_rows, panel_cols, gap_size, quadrant_selection) ==
    IF quadrant_selection = "All"
    THEN LET layout_data == create_dynamic_grid(panel_rows, panel_cols, gap_size)
             plotted == IF display_df # <<>>
                        THEN calculate_defect_coordinates(display_df, panel_rows, panel_cols,
                                 layout_data.cell_size, layout_data.gap_size_units)
                        ELSE <<>>
         IN  [quadrant_selection |-> quadrant_selection,
              df |-> plotted,
              traces |-> defect_traces_of(display_df, plotted),
              defects |-> Len(display_df),
              x_axis_range |-> layout_data.x_axis_range,
              y_axis_range |-> layout_data.y_axis_range]
    ELSE LET plotted == IF display_df # <<>>
                        THEN zoom_coordinates(display_df, panel_rows, panel_cols)
                        ELSE <<>>
         IN
         [quadrant_selection |-> quadrant_selection,
          df |-> plotted,
          traces |-> defect_traces_of(display_df, plotted),
          defects |-> Len(display_df),
          x_axis_range |-> << 0, (panel_cols - 1) * JitterDen >>,
          y_axis_range |-> << 0, (panel_rows - 1) * JitterDen >>]

\* ===================================================================== state
VARIABLES
    sheet,      \* the uploaded sheet handed to load_data
    panel,      \* [panel_rows, panel_cols, gap_size] of the run
    df,         \* the frame: as load_data returned it, then with jitter
    fig,        \* the defect-view figure last built from df
    pc,         \* "raw", "loaded", "stored" or "drawn"; "app" in a session
    page,           \* the script of the session: "main", "pareto" or "summary"
    uploaded_files, \* the value of the file uploader: None or a sheet
    session,        \* st.session_state: the keys present and their values
    cache,          \* the store of st.cache_data for load_data, by arguments
    rendered        \* what the last run of the script put on the page

vars == << sheet, panel, df, fig, pc, page, uploaded_files, session, cache, rendered >>
mapVars == << sheet, panel, df, fig, pc >>
appVars == << page, uploaded_files, session, cache, rendered >>

PanelSizes == 2 .. MaxPanel
GapSizes == 0 .. MaxGap
\* Unit indices explored: one below the range and up to twice the largest
\* panel, which is at or beyond the range of every panel size.
IndexVals == -1 .. (2 * MaxPanel)
Selections == {"All", "Q1", "Q2", "Q3", "Q4"}

NoFigure == [quadrant_selection |-> "none"]

\* The defect types of an uploaded record: a key of defect_style_map and a
\* type that is not one.
UploadedTypes == {"Nick", "Scratch"}

\* A page with nothing on it but a message: kind names the message.
Message(kind) == [kind |-> kind, rows |-> << >>, report |-> << >>, error |-> {}]

\* No session is running.
NoSession ==
    /\ page = "none"
    /\ uploaded_files = None
    /\ session = << >>
    /\ cache = << >>
    /\ rendered = Message("none")

\* --------------------------------------------- the mapping of one record
\* One uploaded record with any indices, under any panel geometry.
InitMap ==
    /\ \E x \in IndexVals, y \in IndexVals, dtype \in UploadedTypes :
          sheet = Sheet(<< [DEFECT_TYPE |-> dtype, UNIT_INDEX_X |-> x, UNIT_INDEX_Y |-> y] >>)
    /\ panel \in [panel_rows : PanelSizes, panel_cols : PanelSizes, gap_size : GapSizes]
    /\ df = << >>
    /\ fig = NoFigure
    /\ pc = "raw"
    /\ NoSession

\* load_data on the uploaded sheet.
MapLoad ==
    /\ pc = "raw"
    /\ LET n == Len(rows_of(sheet, << >>, panel.panel_rows, panel.panel_cols))
       IN  \E rx \in RandVec(n), ry \in RandVec(n) :
             df' = load_data(sheet, panel.panel_rows, panel.panel_cols,
                             panel.gap_size, << >>, rx, ry)
    /\ pc' = "loaded"
    /\ UNCHANGED << sheet, panel, fig >>
    /\ UNCHANGED appVars

\* The jitter drawn once for the loaded frame.
MapStore ==
    /\ pc = "loaded"
    /\ \E jx \in RandVec(Len(df)), jy \in RandVec(Len(df)) :
          df' = add_jitter(df, jx, jy)
    /\ pc' = "stored"
    /\ UNCHANGED << sheet, panel, fig >>
    /\ UNCHANGED appVars

\* The defect view of the stored frame for a quadrant selection, drawn and
\* drawn again: display_df is taken from the stored frame, the figure is
\* built from it, and df is the stored frame as the run leaves it.
MapDraw ==
    /\ pc \in {"stored", "drawn", "redrawn"}
    /\ \E quadrant_selection \in Selections :
          LET stored == stored_object(df)
              display_df == display_object(stored, quadrant_selection)
          IN  /\ fig' = create_defect_view_figure(display_df.frame,
                            panel.panel_rows, panel.panel_cols, panel.gap_size,
                            quadrant_selection)
              /\ df' = stored_after_render(stored, display_df, fig')
    /\ pc' = IF pc = "stored" THEN "drawn" ELSE "redrawn"
    /\ UNCHANGED << sheet, panel >>
    /\ UNCHANGED appVars

NextMap == MapLoad \/ MapStore \/ MapDraw

SpecMap == InitMap /\ [][NextMap]_vars

\* ------------------------------------------------ the mapping of two records
\* Two uploaded records with different indices, each in range, under any
\* geometry (in one order: load_data treats the rows alike).
InitCell ==
    /\ panel \in [panel_rows : PanelSizes, panel_cols : PanelSizes, gap_size : GapSizes]
    /\ \E x1 \in 0 .. (2 * panel.panel_rows - 1), y1 \in 0 .. (2 * panel.panel_cols - 1),
          x2 \in 0 .. (2 * panel.panel_rows - 1), y2 \in 0 .. (2 * panel.panel_cols - 1) :
          /\ (x1 < x2) \/ (x1 = x2 /\ y1 < y2)
          /\ sheet = Sheet(<< [DEFECT_TYPE |-> "Nick", UNIT_INDEX_X |-> x1, UNIT_INDEX_Y |-> y1],
                           [DEFECT_TYPE |-> "Short", UNIT_INDEX_X |-> x2, UNIT_INDEX_Y |-> y2] >>)
    /\ df = << >>
    /\ fig = NoFigure
    /\ pc = "raw"
    /\ NoSession

NextCell == MapLoad

SpecCell == InitCell /\ [][NextCell]_vars

\* ================================================================ the session
\* The sheets a user uploads.  FileA has an extra column, an untrimmed type,
\* a fractional index and a row with a missing value; FileB has one record,
\* none of them FileA's; FileBad lacks a required column.
FileA ==
    [present |-> TRUE,
     columns |-> required_columns \cup {"Verification"},
     rows    |-> << [DEFECT_TYPE |-> " Nick", UNIT_INDEX_X |-> Whole(0),
                     UNIT_INDEX_Y |-> Whole(0), na |-> {}],
                    [DEFECT_TYPE |-> "Short ", UNIT_INDEX_X |-> Whole(2) + 1,
                     UNIT_INDEX_Y |-> Whole(1), na |-> {}],
                    [DEFECT_TYPE |-> "Cut", UNIT_INDEX_X |-> Whole(1),
                     UNIT_INDEX_Y |-> Whole(1), na |-> {"UNIT_INDEX_Y"}] >>]

FileB ==
    Sheet(<< [DEFECT_TYPE |-> "Cut", UNIT_INDEX_X |-> 1, UNIT_INDEX_Y |-> 3] >>)

FileBad ==
    [present |-> TRUE,
     columns |-> {"DEFECT_TYPE", "UNIT_INDEX_X"},
     rows    |-> << [DEFECT_TYPE |-> "Cut", UNIT_INDEX_X |-> Whole(1), na |-> {}] >>]

Uploads == {None, FileA, FileB, FileBad}

\* The values of the widgets of a run.  Panel Columns stays at its minimum.
PanelRowsInput == PanelSizes
PanelColsInput == {2}
ViewModes == {"Defect View", "Pareto View", "Summary View"}

\* What the sample data draws per record: the quadrant, the type and the
\* offsets of the two indices within the quadrant.
SampleDraws(panel_rows, panel_cols) ==
    LET Offsets(n) == 0 .. (IF n - 1 < MaxSampleOffset THEN n - 1 ELSE MaxSampleOffset)
    IN  [1 .. number_of_defects ->
            [q : {"Q1", "Q2", "Q3", "Q4"}, t : 1 .. SampleTypeCount,
             ux : Offsets(panel_rows), uy : Offsets(panel_cols)]]

\* The columns of a frame the scripts read.  plot_x and plot_y of load_data
\* are read by no script: every figure overwrites them on a copy.
session_columns(frame) ==
    [i \in DOMAIN frame |->
        [c \in (DOMAIN frame[i]) \ {"plot_x", "plot_y"} |-> frame[i][c]]]

\* Every frame a call of load_data can return.
load_data_results(uploaded_file, panel_rows, panel_cols, gap_size) ==
    LET n == IF uploaded_file = None THEN number_of_defects
             ELSE Len(read_and_clean(uploaded_file))
        draws == IF uploaded_file = None THEN SampleDraws(panel_rows, panel_cols)
                 ELSE {<< >>}
    IN  {session_columns(load_data(uploaded_file, panel_rows, panel_cols, gap_size, d, rx, ry)) :
            d \in draws, rx \in RandVec(n), ry \in RandVec(n)}

\* load_data as the pages call it, without a gap size.
load_data_of_pages(uploaded_file, panel_rows, panel_cols) ==
    load_data_results(uploaded_file, panel_rows, panel_cols, 1)

\* @st.cache_data: the stored result for these arguments, else a fresh one.
cache_data(store, key, results) ==
    IF key \in DOMAIN store THEN {store[key]} ELSE results

\* The store once the result of a call is in it.
cache_put(store, key, result) ==
    [k \in (DOMAIN store) \cup {key} |-> IF k = key THEN result ELSE store[k]]

\* st.session_state with key set to value, and without key.
session_set(state, key, value) ==
    [k \in (DOMAIN state) \cup {key} |-> IF k = key THEN value ELSE state[k]]

session_del(state, key) ==
    [k \in (DOMAIN state) \ {key} |-> state[k]]

session_get(state, key, default) ==
    IF key \in DOMAIN state THEN state[key] ELSE default

\* reset_analysis_state, the on_change callback of the uploader of app.py.
reset_processed_only(state) == session_set(state, "processed_df", << >>)

reset_analysis_state(state) ==
    session_set(session_set(state, "analysis_run", FALSE), "processed_df", << >>)

\* processed_df.empty or 'jitter_x' not in processed_df.columns
needs_jitter_always(processed_df) == TRUE

needs_jitter(processed_df) ==
    \/ processed_df = << >>
    \/ \E i \in DOMAIN processed_df : "jitter_x" \notin DOMAIN processed_df[i]

\* The 'Full Defect List' of the report: report_columns of full_df.
full_defect_list(full_df) ==
    [i \in DOMAIN full_df |->
        [c \in {"UNIT_INDEX_X", "UNIT_INDEX_Y", "DEFECT_TYPE", "QUADRANT"} |-> full_df[i][c]]]

\* The level of the message of a page: st.warning for the load that gave no
\* data, st.info for a scope without defects and for the invitation to begin.
message_level(kind) ==
    CASE kind = "No data to display" -> "warning"
      [] kind = "No defects to summarize" -> "info"
      [] kind = "begin" -> "info"
      [] OTHER -> "none"

\* The page of app.py for a view of display_df, with the report of full_df.
render_main_conflated(view_mode, display_df, full_df) ==
    IF display_df = << >>
    THEN [kind |-> "No data to display", rows |-> << >>,
          report |-> full_defect_list(full_df), error |-> {}]
    ELSE [kind |-> view_mode, rows |-> display_df,
          report |-> full_defect_list(full_df), error |-> {}]

render_main(view_mode, display_df, full_df) ==
    IF view_mode = "Summary View" /\ display_df = << >>
    THEN [kind |-> "No defects to summarize", rows |-> << >>,
          report |-> full_defect_list(full_df), error |-> {}]
    ELSE [kind |-> view_mode, rows |-> display_df,
          report |-> full_defect_list(full_df), error |-> {}]

\* The page of pages/1_Pareto_Analysis.py and of pages/2_Summary_View.py.
render_page(script, display_df) ==
    IF script = "summary" /\ display_df = << >>
    THEN Message("No defects to summarize")
    ELSE [kind |-> IF script = "pareto" THEN "Pareto View" ELSE "Summary View",
          rows |-> display_df, report |-> << >>, error |-> {}]

\* The page a run leaves when it has called load_data on uploaded_file: what
\* the script drew, and what load_data reported (a cached call reports it
\* again).
page_after_load(drawn, uploaded_file) ==
    [drawn EXCEPT !.error = load_data_error(uploaded_file)]

\* One run of app.py from session state state0 and cache store0: the button,
\* the widgets (any values), the load, the jitter drawn once, the filter and
\* the view.
main_script(state0, store0, click) ==
    LET gap_size == 1
        state1 == IF click THEN session_set(state0, "analysis_run", TRUE) ELSE state0
    IN  IF ~state1.analysis_run
        THEN /\ session' = state1
             /\ cache' = store0
             /\ rendered' = Message("begin")
        ELSE \E panel_rows \in PanelRowsInput, panel_cols \in PanelColsInput,
                view_mode \in ViewModes, quadrant_selection \in Selections :
             LET key == << uploaded_files', panel_rows, panel_cols, gap_size >>
             IN
             \E full_df \in cache_data(store0, key,
                    load_data_results(uploaded_files', panel_rows, panel_cols, gap_size)) :
               /\ cache' = cache_put(store0, key, full_df)
               /\ IF full_df = << >>
                  THEN /\ session' = state1
                       /\ rendered' = page_after_load(Message("No data to display"),
                                                      uploaded_files')
                  ELSE LET draw == needs_jitter(state1.processed_df)
                           n == IF draw THEN Len(full_df) ELSE 0
                       IN  \E jx \in RandVec(n), jy \in RandVec(n) :
                             LET processed_df == IF draw THEN add_jitter(full_df, jx, jy)
                                                 ELSE state1.processed_df
                                 display_df == display_of(processed_df, quadrant_selection)
                             IN  /\ session' = session_set(state1, "processed_df", processed_df)
                                 /\ rendered' = page_after_load(
                                        render_main(view_mode, display_df,
                                            IF draw THEN processed_df ELSE full_df),
                                        uploaded_files')

\* One run of a page script: the button, the load when no processed_df is
\* in the session, the filter and the view.
page_script(state0, store0, click) ==
    LET state1 == IF click /\ ~session_get(state0, "analysis_run", FALSE)
                  THEN session_del(session_set(state0, "analysis_run", TRUE), "processed_df")
                  ELSE state0
    IN  IF ~session_get(state1, "analysis_run", FALSE)
        THEN /\ session' = state1
             /\ cache' = store0
             /\ rendered' = Message("begin")
        ELSE \E panel_rows \in PanelRowsInput, panel_cols \in PanelColsInput,
                quadrant_selection \in Selections :
               LET key == << uploaded_files', panel_rows, panel_cols >>
               IN  IF "processed_df" \in DOMAIN state1
                   THEN /\ session' = state1
                        /\ cache' = store0
                        /\ rendered' =
                              IF state1.processed_df = << >>
                              THEN Message("No data to display")
                              ELSE render_page(page, display_of(state1.processed_df,
                                                                quadrant_selection))
                   ELSE \E full_df \in cache_data(store0, key,
                               load_data_of_pages(uploaded_files', panel_rows, panel_cols)) :
                          \E jx \in RandVec(Len(full_df)), jy \in RandVec(Len(full_df)) :
                            LET processed_df == IF full_df # << >>
                                                THEN add_jitter(full_df, jx, jy)
                                                ELSE << >>
                            IN  /\ cache' = cache_put(store0, key, full_df)
                                /\ session' = session_set(state1, "processed_df", processed_df)
                                /\ rendered' = page_after_load(
                                      IF processed_df = << >>
                                      THEN Message("No data to display")
                                      ELSE render_page(page, display_of(processed_df,
                                                                        quadrant_selection)),
                                      uploaded_files')

\* A session opens on one of the scripts, which has run once: nothing is
\* uploaded, app.py has initialised its two keys, the page says how to begin.
Init ==
    /\ sheet = None
    /\ panel = [panel_rows |-> 2, panel_cols |-> 2, gap_size |-> 1]
    /\ df = << >>
    /\ fig = NoFigure
    /\ pc = "app"
    /\ page \in {"main", "pareto", "summary"}
    /\ uploaded_files = None
    /\ session = IF page = "main"
                 THEN [analysis_run |-> FALSE, processed_df |-> << >>]
                 ELSE << >>
    /\ cache = << >>
    /\ rendered = Message("begin")

\* The user changes the upload of app.py: the callback, then the script.
MainUpload ==
    /\ page = "main"
    /\ \E f \in Uploads \ {uploaded_files} : uploaded_files' = f
    /\ main_script(reset_analysis_state(session), << >>, FALSE)
    /\ UNCHANGED << mapVars, page >>

\* The user clicks Run Analysis or changes another widget of app.py.
MainRerun ==
    /\ page = "main"
    /\ uploaded_files' = uploaded_files
    /\ \E click \in BOOLEAN : main_script(session, cache, click)
    /\ UNCHANGED << mapVars, page >>

\* The user changes the upload of a page: the script runs, no callback.
PageUpload ==
    /\ page \in {"pareto", "summary"}
    /\ \E f \in Uploads \ {uploaded_files} : uploaded_files' = f
    /\ page_script(session, cache, FALSE)
    /\ UNCHANGED << mapVars, page >>

\* The user clicks Run Analysis or changes another widget of a page.
PageRerun ==
    /\ page \in {"pareto", "summary"}
    /\ uploaded_files' = uploaded_files
    /\ \E click \in BOOLEAN : page_script(session, cache, click)
    /\ UNCHANGED << mapVars, page >>

Next == MainUpload \/ MainRerun \/ PageUpload \/ PageRerun

Spec == Init /\ [][Next]_vars

\* ============================================================ the sample data
\* Everything the fallback path can draw for a panel: any quadrant, the
\* first SampleTypeCount types, any cell of the quadrant.
SampleDrawsOfPanel(panel_rows, panel_cols) ==
    [1 .. number_of_defects ->
        [q : {"Q1", "Q2", "Q3", "Q4"}, t : 1 .. SampleTypeCount,
         ux : 0 .. (panel_rows - 1), uy : 0 .. (panel_cols - 1)]]

\* No file is uploaded; the panel has any size the widgets allow.
InitSample ==
    /\ sheet = None
    /\ panel \in [panel_rows : PanelSizes, panel_cols : PanelSizes, gap_size : GapSizes]
    /\ df = << >>
    /\ fig = NoFigure
    /\ pc = "raw"
    /\ NoSession

\* load_data(None, panel_rows, panel_cols, gap_size); fig keeps
\* quadrant_choices, the quadrants the generator drew, row by row.
SampleLoad ==
    /\ pc = "raw"
    /\ \E draws \in SampleDrawsOfPanel(panel.panel_rows, panel.panel_cols) :
       \E rx \in RandVec(Len(draws)), ry \in RandVec(Len(draws)) :
          /\ df' = load_data(sheet, panel.panel_rows, panel.panel_cols,
                             panel.gap_size, draws, rx, ry)
          /\ fig' = [quadrant_selection |-> "none",
                     quadrant_choices |-> [i \in DOMAIN draws |-> draws[i].q]]
    /\ pc' = "sample"
    /\ UNCHANGED << sheet, panel >>
    /\ UNCHANGED appVars

NextSample == SampleLoad

SpecSample == InitSample /\ [][NextSample]_vars

\* ======================================================= quadrant breakdowns
quadrants == << "Q1", "Q2", "Q3", "Q4" >>

\* len(full_df[full_df['QUADRANT'] == quad])
quad_count(full_df, quad) ==
    LET InQuad(r) == r.QUADRANT = quad
    IN  Len(SelectSeq(full_df, InQuad))

\* f"{num/den:.2f}" in hundredths: the nearest, the even one on a tie.
format_2f(num, den) ==
    LET q == (100 * num) \div den
        twice == 2 * ((100 * num) % den)
    IN  IF twice > den \/ (twice = den /\ q % 2 = 1) THEN q + 1 ELSE q

\* kpi_df of the 'All' branch of render_summary_view: one row per quadrant.
kpi_breakdown(full_df, panel_rows, panel_cols) ==
    [i \in DOMAIN quadrants |->
        LET total_defects == quad_count(full_df, quadrants[i])
        IN  [Quadrant       |-> quadrants[i],
             Total_Defects  |-> total_defects,
             Defect_Density |-> IF panel_rows * panel_cols > 0
                                THEN format_2f(total_defects, panel_rows * panel_cols)
                                ELSE 0]]

\* a / b of two Python ints with b not 0, kept as the fraction num/den.
true_divide(a, b) == [num |-> a, den |-> b]

\* The int 0 where a guard replaces a division.
Zero == [num |-> 0, den |-> 1]

\* summary_df of generate_excel_report: one row per quadrant, its density
\* divided without a guard, then 'Total', guarded.
quarterly_summary(full_df, panel_rows, panel_cols) ==
    [i \in DOMAIN quadrants |->
        [Quadrant       |-> quadrants[i],
         Total_Defects  |-> quad_count(full_df, quadrants[i]),
         Defect_Density |-> true_divide(quad_count(full_df, quadrants[i]),
                                        panel_rows * panel_cols)]]
    \o << [Quadrant       |-> "Total",
           Total_Defects  |-> Len(full_df),
           Defect_Density |-> IF panel_rows * panel_cols > 0
                              THEN true_divide(Len(full_df), 4 * panel_rows * panel_cols)
                              ELSE Zero] >>

\* The sheets of the workbook, in the order they are added: the summary, a
\* 'Qn Top Defects' sheet for each quadrant that has a record, the full list.
top_defects_sheet(quad) ==
    CASE quad = "Q1" -> "Q1 Top Defects"
      [] quad = "Q2" -> "Q2 Top Defects"
      [] quad = "Q3" -> "Q3 Top Defects"
      [] quad = "Q4" -> "Q4 Top Defects"

report_sheets(full_df) ==
    LET NotEmpty(quad) == quad_count(full_df, quad) > 0
        with_records == SelectSeq(quadrants, NotEmpty)
    IN  << "Quarterly Summary" >>
        \o [i \in DOMAIN with_records |-> top_defects_sheet(with_records[i])]
        \o << "Full Defect List" >>

\* The workbook of generate_excel_report: its sheets and the rows of its
\* 'Quarterly Summary', or the exception the division of the first row
\* raises when panel_rows * panel_cols is 0.
report_summary(full_df, panel_rows, panel_cols) ==
    IF panel_rows * panel_cols = 0
    THEN [quadrant_selection |-> "All", raised |-> "ZeroDivisionError",
          rows |-> << >>, sheets |-> << >>]
    ELSE [quadrant_selection |-> "All", raised |-> "none",
          rows |-> quarterly_summary(full_df, panel_rows, panel_cols),
          sheets |-> report_sheets(full_df)]

\* len(display_df[['UNIT_INDEX_X', 'UNIT_INDEX_Y']].drop_duplicates())
defective_cells_with_duplicates(display_df) == Len(display_df)

defective_cells_of(display_df) ==
    Cardinality({<< display_df[i].UNIT_INDEX_X, display_df[i].UNIT_INDEX_Y >> :
                    i \in DOMAIN display_df})

\* defect_density and yield_estimate of the single-quadrant branch.
defect_density_of(total_defects, total_cells) ==
    IF total_cells > 0 THEN true_divide(total_defects, total_cells) ELSE Zero

yield_estimate_clamped(total_cells, defective_cells) ==
    IF total_cells > 0 /\ defective_cells <= total_cells
    THEN true_divide(total_cells - defective_cells, total_cells)
    ELSE Zero

yield_estimate_of(total_cells, defective_cells) ==
    IF total_cells > 0 THEN true_divide(total_cells - defective_cells, total_cells)
    ELSE Zero

\* The KPIs of render_summary_view for one quadrant.
quadrant_kpis(display_df, quadrant_selection, panel_rows, panel_cols) ==
    LET total_defects == Len(display_df)
        total_cells == panel_rows * panel_cols
        defective_cells == defective_cells_of(display_df)
    IN  [quadrant_selection |-> quadrant_selection,
         raised          |-> "none",
         total_defects   |-> total_defects,
         total_cells     |-> total_cells,
         defective_cells |-> defective_cells,
         defect_density  |-> defect_density_of(total_defects, total_cells),
         yield_estimate  |-> yield_estimate_of(total_cells, defective_cells)]

\* The panel sizes handed to the breakdowns: the functions take any int.
AggPanelSizes == -1 .. MaxPanel

\* The frames handed to the two breakdowns: up to MaxRecords records, each
\* with one of the labels load_data's classifier can choose from.
Labels == {"Q1", "Q2", "Q3", "Q4", "Other"}
LabelledRecords ==
    [DEFECT_TYPE : {"Nick", "Short"}, UNIT_INDEX_X : 0 .. 1, UNIT_INDEX_Y : 0 .. 1,
     QUADRANT : Labels]

InitAgg ==
    /\ sheet = None
    /\ panel \in [panel_rows : AggPanelSizes, panel_cols : AggPanelSizes, gap_size : {1}]
    /\ \E n \in 1 .. MaxRecords : df \in [1 .. n -> LabelledRecords]
    /\ fig = NoFigure
    /\ pc = "frame"
    /\ NoSession

\* render_summary_view(display_df, full_df, 'All', panel_rows, panel_cols)
AggSummary ==
    /\ pc = "frame"
    /\ fig' = [quadrant_selection |-> "All", raised |-> "none",
               rows |-> kpi_breakdown(df, panel.panel_rows, panel.panel_cols)]
    /\ pc' = "summary"
    /\ UNCHANGED << sheet, panel, df >>
    /\ UNCHANGED appVars

\* generate_excel_report(full_df, panel_rows, panel_cols)
AggReport ==
    /\ pc = "frame"
    /\ fig' = report_summary(df, panel.panel_rows, panel.panel_cols)
    /\ pc' = "report"
    /\ UNCHANGED << sheet, panel, df >>
    /\ UNCHANGED appVars

\* render_summary_view(display_df, full_df, quadrant, panel_rows, panel_cols)
\* for one quadrant and a scope that is not empty, up to the KPIs.
AggQuadrant ==
    /\ pc = "frame"
    /\ \E quadrant_selection \in {"Q1", "Q2", "Q3", "Q4"} :
          fig' = quadrant_kpis(df, quadrant_selection, panel.panel_rows, panel.panel_cols)
    /\ pc' = "kpis"
    /\ UNCHANGED << sheet, panel, df >>
    /\ UNCHANGED appVars

NextAgg == AggSummary \/ AggReport \/ AggQuadrant

SpecAgg == InitAgg /\ [][NextAgg]_vars

\* ========================================================== Pareto rankings
\* The distinct values of a column in the order of their first appearance.
RECURSIVE unique(_)
unique(values) ==
    IF values = << >> THEN << >>
    ELSE LET before == unique(SubSeq(values, 1, Len(values) - 1))
             last == values[Len(values)]
         IN  IF \E i \in DOMAIN before : before[i] = last THEN before
             ELSE Append(before, last)

\* Series.value_counts(): every ranking it can return.  The counts are
\* collected in first-seen order and sorted in descending order by
\* sort_values with its default kind, quicksort, which promises no order
\* between equal counts: every descending order is a possible result.
value_counts(values) ==
    LET keys == unique(values)
        n == Len(keys)
        count(k) == Cardinality({i \in DOMAIN values : values[i] = k})
        orders == {p \in [1 .. n -> 1 .. n] :
                      /\ \A i \in 1 .. n, j \in 1 .. n : i # j => p[i] # p[j]
                      /\ \A i \in 1 .. n, j \in 1 .. n :
                            i < j => count(keys[p[i]]) >= count(keys[p[j]])}
    IN  {[i \in 1 .. n |-> [key |-> keys[p[i]], count |-> count(keys[p[i]])]] :
            p \in orders}

\* The DEFECT_TYPE column of a frame.
defect_types(frame) == [i \in DOMAIN frame |-> frame[i].DEFECT_TYPE]

\* create_pareto_trace(df), frame standing for df and pareto_data for the
\* value_counts of its DEFECT_TYPE column: one go.Bar named 'Pareto', the
\* types on x and the counts on y.
create_pareto_trace_raising(frame, pareto_data) ==
    IF frame = << >> THEN [raised |-> "ZeroDivisionError"]
    ELSE [raised |-> "none", trace |-> "Bar", name |-> "Pareto",
          x |-> [i \in DOMAIN pareto_data |-> pareto_data[i].key],
          y |-> [i \in DOMAIN pareto_data |-> pareto_data[i].count]]

create_pareto_trace(frame, pareto_data) ==
    IF frame = << >>
    THEN [raised |-> "none", trace |-> "Bar", name |-> "Pareto", x |-> << >>, y |-> << >>]
    ELSE [raised |-> "none", trace |-> "Bar", name |-> "Pareto",
          x |-> [i \in DOMAIN pareto_data |-> pareto_data[i].key],
          y |-> [i \in DOMAIN pareto_data |-> pareto_data[i].count]]

\* create_grouped_pareto_trace(df), frame standing for df and top_defects
\* for the value_counts of its DEFECT_TYPE column: for each of Q1..Q4 the counts of its records by
\* type, reindexed to top_defects and filled with 0; a quadrant without
\* records has an empty pivot and gets no trace.
create_grouped_pareto_trace_unfilled(frame, top_defects) ==
    IF frame = << >> THEN << >>
    ELSE LET size(quadrant, dtype) ==
                 Cardinality({i \in DOMAIN frame : /\ frame[i].QUADRANT = quadrant
                                                /\ frame[i].DEFECT_TYPE = dtype})
             bar(quadrant) ==
                 LET Present(entry) == size(quadrant, entry.key) > 0
                     present == SelectSeq(top_defects, Present)
                 IN  [name |-> quadrant,
                      x |-> [i \in DOMAIN present |-> present[i].key],
                      y |-> [i \in DOMAIN present |-> size(quadrant, present[i].key)]]
             HasTrace(quadrant) == \E i \in DOMAIN frame : frame[i].QUADRANT = quadrant
             with_trace == SelectSeq(quadrants, HasTrace)
         IN  [i \in DOMAIN with_trace |-> bar(with_trace[i])]

create_grouped_pareto_trace(frame, top_defects) ==
    IF frame = << >> THEN << >>
    ELSE LET size(quadrant, dtype) ==
                 Cardinality({i \in DOMAIN frame : /\ frame[i].QUADRANT = quadrant
                                                /\ frame[i].DEFECT_TYPE = dtype})
             pivot_empty(quadrant) == \A i \in DOMAIN frame : frame[i].QUADRANT # quadrant
             bar(quadrant) ==
                 [name |-> quadrant,
                  x |-> [i \in DOMAIN top_defects |-> top_defects[i].key],
                  y |-> [i \in DOMAIN top_defects |-> size(quadrant, top_defects[i].key)]]
             HasTrace(quadrant) == ~pivot_empty(quadrant)
             with_trace == SelectSeq(quadrants, HasTrace)
         IN  [i \in DOMAIN with_trace |-> bar(with_trace[i])]

\* top_offenders of render_summary_view: type, count and percentage of the
\* scope, the percentage kept as the fraction num/den.
top_offenders(display_df, counts) ==
    [i \in DOMAIN counts |->
        [Defect_Type |-> counts[i].key,
         Count       |-> counts[i].count,
         Percentage  |-> [num |-> counts[i].count * 100, den |-> Len(display_df)]]]

\* top_offenders of a '<quad> Top Defects' sheet of generate_excel_report.
top_offenders_sheet(quad_df, counts) ==
    [i \in DOMAIN counts |->
        [Defect_Type |-> counts[i].key,
         Count       |-> counts[i].count,
         Percentage  |-> [num |-> counts[i].count, den |-> Len(quad_df)]]]

\* The frames handed to the rankings: up to MaxParetoRecords records, of
\* three defect types, each with a quadrant label.
ParetoRecords ==
    [DEFECT_TYPE : {"Nick", "Short", "Cut"}, UNIT_INDEX_X : {0}, UNIT_INDEX_Y : {0},
     QUADRANT : Labels]

InitPareto ==
    /\ sheet = None
    /\ panel = [panel_rows |-> 2, panel_cols |-> 2, gap_size |-> 1]
    /\ \E n \in 0 .. MaxParetoRecords : df \in [1 .. n -> ParetoRecords]
    /\ fig = NoFigure
    /\ pc = "records"
    /\ NoSession

\* create_pareto_trace(df)
ParetoTrace ==
    /\ pc = "records"
    /\ \E pareto_data \in value_counts(defect_types(df)) :
          fig' = create_pareto_trace(df, pareto_data)
    /\ pc' = "pareto"
    /\ UNCHANGED << sheet, panel, df >>
    /\ UNCHANGED appVars

\* create_grouped_pareto_trace(df)
ParetoGrouped ==
    /\ pc = "records"
    /\ \E top_defects \in value_counts(defect_types(df)) :
          fig' = [traces |-> create_grouped_pareto_trace(df, top_defects)]
    /\ pc' = "grouped"
    /\ UNCHANGED << sheet, panel, df >>
    /\ UNCHANGED appVars

\* The 'Top Defect Types' table of render_summary_view for a scope that is
\* not empty.
ParetoTopOffenders ==
    /\ pc = "records"
    /\ df # << >>
    /\ \E counts \in value_counts(defect_types(df)) :
          fig' = [rows |-> top_offenders(df, counts), of |-> df]
    /\ pc' = "top_offenders"
    /\ UNCHANGED << sheet, panel, df >>
    /\ UNCHANGED appVars

\* A '<quad> Top Defects' sheet of generate_excel_report, written for a
\* quadrant that has records.
ParetoTopSheet ==
    /\ pc = "records"
    /\ \E i \in DOMAIN quadrants :
          LET quad_df == display_of(df, quadrants[i])
          IN  /\ quad_df # << >>
              /\ \E counts \in value_counts(defect_types(quad_df)) :
                    fig' = [rows |-> top_offenders_sheet(quad_df, counts), of |-> quad_df]
    /\ pc' = "top_sheet"
    /\ UNCHANGED << sheet, panel, df >>
    /\ UNCHANGED appVars

NextPareto == ParetoTrace \/ ParetoGrouped \/ ParetoTopOffenders \/ ParetoTopSheet

SpecPareto == InitPareto /\ [][NextPareto]_vars

\* ================================================================== claims
Quadrants == {"Q1", "Q2", "Q3", "Q4"}

\* The indices of row r lie in [0, 2*panel_rows) x [0, 2*panel_cols).
InRange(r) ==
    /\ 0 <= r.UNIT_INDEX_X /\ r.UNIT_INDEX_X < 2 * panel.panel_rows
    /\ 0 <= r.UNIT_INDEX_Y /\ r.UNIT_INDEX_Y < 2 * panel.panel_cols

\* C1: every loaded record with indices in range carries exactly one of
\* Q1..Q4, the one the rule gives: Q1 iff X < rows and Y < cols, Q2 iff
\* X < rows and Y >= cols, Q3 iff X >= rows and Y < cols, Q4 iff X >= rows
\* and Y >= cols; it is never 'Other'.
C1_Partition ==
    pc # "raw" =>
        \A i \in DOMAIN df :
            InRange(df[i]) =>
                LET x == df[i].UNIT_INDEX_X
                    y == df[i].UNIT_INDEX_Y
                    q == df[i].QUADRANT
                IN  /\ q \in Quadrants
                    /\ (q = "Q1") <=> (x < panel.panel_rows /\ y < panel.panel_cols)
                    /\ (q = "Q2") <=> (x < panel.panel_rows /\ y >= panel.panel_cols)
                    /\ (q = "Q3") <=> (x >= panel.panel_rows /\ y < panel.panel_cols)
                    /\ (q = "Q4") <=> (x >= panel.panel_rows /\ y >= panel.panel_cols)

C1_Witness ==
    /\ pc = "loaded"
    /\ panel.panel_rows = 3 /\ panel.panel_cols = 2
    /\ \E i \in DOMAIN df :
          /\ InRange(df[i])
          /\ df[i].UNIT_INDEX_X = 2 /\ df[i].UNIT_INDEX_Y = 2
          /\ df[i].QUADRANT = "Q2"

\* C4 (as claimed): every loaded record with an index outside the range is
\* labelled 'Other' and none of Q1..Q4.
C4_OutOfRangeIsOther ==
    pc # "raw" =>
        \A i \in DOMAIN df : ~InRange(df[i]) => df[i].QUADRANT = "Other"

\* C6: a record with indices in range is mapped strictly inside the panel
\* rectangle of its QUADRANT: by load_data in the layout with unit cells
\* (origins (0,0), (cols+gap, 0), (0, rows+gap) and both), and by the 'All'
\* figure inside the rectangle create_dynamic_grid draws for that quadrant.
C6_InsideOwnPanel ==
    /\ pc # "raw" =>
          \A i \in DOMAIN df :
              InRange(df[i]) =>
                  LET o == panel_origins(panel.panel_cols * JitterDen,
                                         panel.panel_rows * JitterDen,
                                         panel.gap_size * JitterDen)[df[i].QUADRANT]
                  IN  /\ o.x < df[i].plot_x
                      /\ df[i].plot_x < o.x + panel.panel_cols * JitterDen
                      /\ o.y < df[i].plot_y
                      /\ df[i].plot_y < o.y + panel.panel_rows * JitterDen
    /\ (pc = "drawn" /\ fig.quadrant_selection = "All") =>
          \A i \in DOMAIN fig.df :
              InRange(fig.df[i]) =>
                  LET rect == create_dynamic_grid(panel.panel_rows, panel.panel_cols,
                                  panel.gap_size).shapes[fig.df[i].QUADRANT]
                  IN  /\ rect.x0 < fig.df[i].plot_x /\ fig.df[i].plot_x < rect.x1
                      /\ rect.y0 < fig.df[i].plot_y /\ fig.df[i].plot_y < rect.y1

C6_Witness ==
    /\ pc = "drawn" /\ fig.quadrant_selection = "All"
    /\ panel.gap_size = 1 /\ panel.panel_rows = 2 /\ panel.panel_cols = 3
    /\ \E i \in DOMAIN fig.df :
          /\ InRange(fig.df[i])
          /\ fig.df[i].QUADRANT = "Q2"
          /\ fig.df[i].UNIT_INDEX_Y = 5

\* C8: for every loaded record, whatever its indices, plot_x lies in
\* [0, 2*panel_cols + gap_size] and plot_y in [0, 2*panel_rows + gap_size].
C8_PlotInUnionSpace ==
    pc # "raw" =>
        \A i \in DOMAIN df :
            /\ 0 <= df[i].plot_x
            /\ df[i].plot_x <= (2 * panel.panel_cols + panel.gap_size) * JitterDen
            /\ 0 <= df[i].plot_y
            /\ df[i].plot_y <= (2 * panel.panel_rows + panel.gap_size) * JitterDen

C8_Witness ==
    /\ pc = "loaded"
    /\ \E i \in DOMAIN df :
          /\ df[i].UNIT_INDEX_X = 2 * panel.panel_rows
          /\ df[i].UNIT_INDEX_Y = -1
          /\ df[i].plot_y > (panel.panel_rows + panel.gap_size) * JitterDen

\* The offset load_data added to a plot coordinate: its part within a cell.
WithinCell(p) == p % JitterDen

\* The jitter values of a state: load_data's two offsets of every record
\* and, once drawn, the stored jitter_x and jitter_y.
JitterValues ==
    IF pc = "raw" THEN {}
    ELSE {WithinCell(df[i].plot_x) : i \in DOMAIN df}
         \cup {WithinCell(df[i].plot_y) : i \in DOMAIN df}
         \cup (IF pc = "loaded" THEN {}
               ELSE {df[i].jitter_x : i \in DOMAIN df}
                    \cup {df[i].jitter_y : i \in DOMAIN df})

\* C9 (as claimed): every jitter value lies strictly between 0.1 and 0.9.
C9_JitterOpenInterval ==
    \A j \in JitterValues : RandDen < j /\ j < 9 * RandDen

\* C9 (amended): every jitter value lies in [0.1, 0.9): 0.1 itself is drawn
\* when rand is 0; the marker is still strictly inside its cell.
C9_JitterHalfOpen ==
    \A j \in JitterValues :
        /\ RandDen <= j /\ j < 9 * RandDen
        /\ 0 < j /\ j < JitterDen

C9_Witness ==
    /\ pc = "stored"
    /\ \E i \in DOMAIN df : df[i].jitter_x = RandDen /\ df[i].jitter_y > RandDen

\* C10: in a single-quadrant figure every record is plotted at
\* (Y mod cols + jitter_x, X mod rows + jitter_y) with its stored jitter,
\* which is its 'All' position minus the origin of its quadrant's panel,
\* divided by the cell size.
C10_ZoomIsLocalAll ==
    (pc = "drawn" /\ fig.quadrant_selection \in Quadrants) =>
        LET shown == display_of(df, fig.quadrant_selection)
            grid == create_dynamic_grid(panel.panel_rows, panel.panel_cols, panel.gap_size)
            all == calculate_defect_coordinates(shown, panel.panel_rows, panel.panel_cols,
                       grid.cell_size, grid.gap_size_units)
            rect == grid.shapes[fig.quadrant_selection]
        IN  /\ Len(fig.df) = Len(shown)
            /\ \A i \in DOMAIN fig.df :
                  /\ fig.df[i].jitter_x = shown[i].jitter_x
                  /\ fig.df[i].jitter_y = shown[i].jitter_y
                  /\ fig.df[i].plot_x = (shown[i].UNIT_INDEX_Y % panel.panel_cols) * JitterDen
                                            + shown[i].jitter_x
                  /\ fig.df[i].plot_y = (shown[i].UNIT_INDEX_X % panel.panel_rows) * JitterDen
                                            + shown[i].jitter_y
                  /\ all[i].plot_x - rect.x0 = fig.df[i].plot_x * grid.cell_size.num
                  /\ all[i].plot_y - rect.y0 = fig.df[i].plot_y * grid.cell_size.num

C10_Witness ==
    /\ pc = "drawn" /\ fig.quadrant_selection = "Q4"
    /\ panel.panel_rows = 2 /\ panel.panel_cols = 3 /\ panel.gap_size = 1
    /\ \E i \in DOMAIN fig.df :
          /\ fig.df[i].UNIT_INDEX_X = 3 /\ fig.df[i].UNIT_INDEX_Y = 4
          /\ fig.df[i].jitter_x # fig.df[i].jitter_y

\* The grid cell of the global coordinate system a mapped row lies in.
CellOf(r) == << r.plot_x \div JitterDen, r.plot_y \div JitterDen >>

\* The cell of the scaled layout a plotted record lies in.
ScaledCellOf(r, cell_size) ==
    << r.plot_x \div Cells(1, cell_size), r.plot_y \div Cells(1, cell_size) >>

\* C7: two loaded records with different (UNIT_INDEX_X, UNIT_INDEX_Y), both
\* in range, lie in different cells of the global coordinate system, the
\* cell being (Y mod cols + x offset, X mod rows + y offset), for every gap;
\* and whatever jitter is stored for them, _calculate_defect_coordinates
\* puts them in different cells of the scaled layout.
C7_CollisionFree ==
    pc = "loaded" =>
        \A i \in DOMAIN df, j \in DOMAIN df :
            ( /\ InRange(df[i]) /\ InRange(df[j])
              /\ << df[i].UNIT_INDEX_X, df[i].UNIT_INDEX_Y >>
                    # << df[j].UNIT_INDEX_X, df[j].UNIT_INDEX_Y >> )
            => /\ CellOf(df[i]) # CellOf(df[j])
               /\ CellOf(df[i]) =
                    << (df[i].UNIT_INDEX_Y % panel.panel_cols)
                         + (IF df[i].UNIT_INDEX_Y >= panel.panel_cols
                            THEN panel.panel_cols + panel.gap_size ELSE 0),
                       (df[i].UNIT_INDEX_X % panel.panel_rows)
                         + (IF df[i].UNIT_INDEX_X >= panel.panel_rows
                            THEN panel.panel_rows + panel.gap_size ELSE 0) >>
               /\ \A jx \in RandVec(Len(df)), jy \in RandVec(Len(df)) :
                     LET grid == create_dynamic_grid(panel.panel_rows, panel.panel_cols,
                                                     panel.gap_size)
                         all == calculate_defect_coordinates(add_jitter(df, jx, jy),
                                    panel.panel_rows, panel.panel_cols,
                                    grid.cell_size, grid.gap_size_units)
                     IN  ScaledCellOf(all[i], grid.cell_size)
                            # ScaledCellOf(all[j], grid.cell_size)

C7_Witness ==
    /\ pc = "loaded" /\ Len(df) = 2
    /\ panel.gap_size = 0 /\ panel.panel_rows = 2 /\ panel.panel_cols = 3
    /\ df[1].UNIT_INDEX_X = df[2].UNIT_INDEX_X
    /\ df[1].UNIT_INDEX_Y = 2 /\ df[2].UNIT_INDEX_Y = 3
    /\ df[1].QUADRANT # df[2].QUADRANT
    /\ CellOf(df[2])[1] = CellOf(df[1])[1] + 1


\* ---------------------------------------------------------------- sessions
\* processed_df holds records with their jitter.
JitterStored(state) ==
    /\ "processed_df" \in DOMAIN state
    /\ state.processed_df # << >>
    /\ \A i \in DOMAIN state.processed_df : "jitter_x" \in DOMAIN state.processed_df[i]

\* C2: in the main app, once the jitter of a loaded dataset is stored in
\* processed_df, a rerun that leaves the upload as it is (any click of Run
\* Analysis, any view mode, quadrant selection and panel size) leaves the
\* records of processed_df and the jitter_x and jitter_y of each unchanged.
C2_JitterStable ==
    [][ (page = "main" /\ JitterStored(session) /\ uploaded_files' = uploaded_files)
        => /\ JitterStored(session')
           /\ Len(session'.processed_df) = Len(session.processed_df)
           /\ \A i \in DOMAIN session.processed_df :
                 /\ session'.processed_df[i].jitter_x = session.processed_df[i].jitter_x
                 /\ session'.processed_df[i].jitter_y = session.processed_df[i].jitter_y
                 /\ session'.processed_df[i].DEFECT_TYPE = session.processed_df[i].DEFECT_TYPE
                 /\ session'.processed_df[i].UNIT_INDEX_X = session.processed_df[i].UNIT_INDEX_X
                 /\ session'.processed_df[i].UNIT_INDEX_Y = session.processed_df[i].UNIT_INDEX_Y
      ]_vars

\* The main app has run FileA under both panel sizes since the upload and
\* now shows the summary of one quadrant, from the jitter stored first.
C2_Witness ==
    /\ page = "main" /\ uploaded_files = FileA
    /\ JitterStored(session)
    /\ \A panel_rows \in PanelRowsInput : << FileA, panel_rows, 2, 1 >> \in DOMAIN cache
    /\ rendered.kind = "Summary View"
    /\ Len(rendered.rows) < Len(session.processed_df)
    /\ session.processed_df[1].jitter_x # session.processed_df[2].jitter_x

\* The records (type and indices) of a frame.
RecordsOf(frame) ==
    {[DEFECT_TYPE  |-> frame[i].DEFECT_TYPE,
      UNIT_INDEX_X |-> frame[i].UNIT_INDEX_X,
      UNIT_INDEX_Y |-> frame[i].UNIT_INDEX_Y] : i \in DOMAIN frame}

RECURSIVE SumTotalDefects(_)
SumTotalDefects(rows) ==
    IF rows = << >> THEN 0
    ELSE Head(rows).Total_Defects + SumTotalDefects(Tail(rows))

\* The rows of a breakdown that stand for a bucket: all but 'Total'.
Buckets(rows) ==
    LET IsBucket(r) == r.Quadrant # "Total"
    IN  SelectSeq(rows, IsBucket)

RECURSIVE SumSeq(_)
SumSeq(numbers) ==
    IF numbers = << >> THEN 0 ELSE Head(numbers) + SumSeq(Tail(numbers))

\* The position at which a defect type first appears in a frame.
FirstSeen(frame, dtype) ==
    CHOOSE i \in DOMAIN frame :
        /\ frame[i].DEFECT_TYPE = dtype
        /\ \A j \in DOMAIN frame : frame[j].DEFECT_TYPE = dtype => i <= j

\* The number of records of a frame with a defect type.
TypeCount(frame, dtype) ==
    Cardinality({i \in DOMAIN frame : frame[i].DEFECT_TYPE = dtype})

\* keys lists each defect type of frame once; Weight of the types does not
\* increase along it, and types of equal Weight are in first-seen order.
RankedStable(keys, frame, Weight(_)) ==
    /\ {keys[i] : i \in DOMAIN keys} = {frame[i].DEFECT_TYPE : i \in DOMAIN frame}
    /\ \A i \in DOMAIN keys, j \in DOMAIN keys : i # j => keys[i] # keys[j]
    /\ \A i \in DOMAIN keys, j \in DOMAIN keys :
          i < j => /\ Weight(keys[i]) >= Weight(keys[j])
                   /\ Weight(keys[i]) = Weight(keys[j])
                         => FirstSeen(frame, keys[i]) < FirstSeen(frame, keys[j])

\* C12 (as claimed): for a frame that is not empty create_pareto_trace
\* gives counts that add up to the number of records and a cumulative
\* percentage line, each entry the running sum of the counts over the
\* total times 100, the last one 100.
C12_ParetoCumulative ==
    (pc = "pareto" /\ df # << >>) =>
        /\ SumSeq(fig.y) = Len(df)
        /\ "cumulative_percentage" \in DOMAIN fig
        /\ Len(fig.cumulative_percentage) = Len(fig.y)
        /\ \A i \in DOMAIN fig.y :
              fig.cumulative_percentage[i] * Len(df) = 100 * SumSeq(SubSeq(fig.y, 1, i))

\* C13 (as claimed): the ranking of create_pareto_trace and the two 'Top
\* Defect Types' tables list each defect type of their records once, by
\* non-increasing count, types of equal count in first-seen order.
C13_RankingStable ==
    /\ pc = "pareto" =>
          LET Count(dtype) == TypeCount(df, dtype)
          IN  /\ RankedStable(fig.x, df, Count)
              /\ \A i \in DOMAIN fig.x : fig.y[i] = Count(fig.x[i])
    /\ pc \in {"top_offenders", "top_sheet"} =>
          LET Count(dtype) == TypeCount(fig.of, dtype)
              keys == [i \in DOMAIN fig.rows |-> fig.rows[i].Defect_Type]
          IN  /\ RankedStable(keys, fig.of, Count)
              /\ \A i \in DOMAIN keys : fig.rows[i].Count = Count(keys[i])

\* C14: for an empty frame create_pareto_trace returns a bar without
\* entries and create_grouped_pareto_trace returns no trace; neither raises.
C14_EmptyIsEmpty ==
    /\ (pc = "pareto" /\ df = << >>) =>
          /\ fig.raised = "none"
          /\ fig.x = << >> /\ fig.y = << >>
    /\ (pc = "grouped" /\ df = << >>) => fig.traces = << >>

C14_Witness ==
    /\ pc = "pareto" /\ df = << >>
    /\ fig.name = "Pareto"

\* C18 (as claimed): for a frame that is not empty the comparison has four
\* series, Q1, Q2, Q3 and Q4 in this order, each with the count of every
\* defect type in its quadrant, 0 where the quadrant has none.
C18_FourSeries ==
    (pc = "grouped" /\ df # << >>) =>
        /\ Len(fig.traces) = 4
        /\ \A q \in DOMAIN fig.traces :
              /\ fig.traces[q].name = quadrants[q]
              /\ \A i \in DOMAIN fig.traces[q].x :
                    fig.traces[q].y[i] =
                        TypeCount(display_of(df, quadrants[q]), fig.traces[q].x[i])

\* C19 (as claimed): every series of the comparison lists the defect types
\* in one order: by non-increasing count over the records of Q1..Q4, types
\* of equal count in first-seen order.
C19_SeriesOrder ==
    pc = "grouped" =>
        LET InQuadrants(r) == r.QUADRANT \in Quadrants
            Total(dtype) == TypeCount(SelectSeq(df, InQuadrants), dtype)
        IN  \A q \in DOMAIN fig.traces : RankedStable(fig.traces[q].x, df, Total)

\* ---------------------------------------------------------- density, yield
\* The fractions a and b are the same number.
SameNumber(a, b) == a.num * b.den = b.num * a.den

\* The fraction a is below 0.
Negative(a) == (a.num < 0 /\ a.den > 0) \/ (a.num > 0 /\ a.den < 0)

\* C15 (as claimed): for panel_rows * panel_cols > 0 the density of the
\* 'Total' row of the report is the number of records over panel_rows *
\* panel_cols, the density of a quadrant row is the quadrant's count over
\* panel_rows * panel_cols, and so is the density of a one-quadrant summary.
C15_DensityOverPanelCells ==
    LET cells == panel.panel_rows * panel.panel_cols
    IN  /\ (pc = "report" /\ cells > 0) =>
              \A i \in DOMAIN fig.rows :
                  SameNumber(fig.rows[i].Defect_Density,
                             true_divide(fig.rows[i].Total_Defects, cells))
        /\ (pc = "kpis" /\ cells > 0) =>
              SameNumber(fig.defect_density, true_divide(Len(df), cells))

\* C16 (as claimed): with panel_rows <= 0 or panel_cols <= 0 no breakdown
\* raises and every density and yield it gives is 0.
C16_DegenerateIsZero ==
    (pc \in {"summary", "report", "kpis"}
        /\ (panel.panel_rows <= 0 \/ panel.panel_cols <= 0)) =>
        /\ fig.raised = "none"
        /\ pc = "summary" => \A i \in DOMAIN fig.rows : fig.rows[i].Defect_Density = 0
        /\ pc = "report" =>
              \A i \in DOMAIN fig.rows : SameNumber(fig.rows[i].Defect_Density, Zero)
        /\ pc = "kpis" => /\ SameNumber(fig.defect_density, Zero)
                          /\ SameNumber(fig.yield_estimate, Zero)

\* C17: for panel_rows * panel_cols > 0 the yield of a one-quadrant summary
\* is (cells - distinct defective cells) / cells, below 0 exactly when
\* there are more distinct defective cells than cells; under every geometry
\* nothing is raised and the density is not below 0.
C17_YieldUnclamped ==
    pc = "kpis" =>
        LET cells == panel.panel_rows * panel.panel_cols
            distinct == Cardinality({<< df[i].UNIT_INDEX_X, df[i].UNIT_INDEX_Y >> :
                                        i \in DOMAIN df})
        IN  /\ fig.raised = "none"
            /\ ~Negative(fig.defect_density)
            /\ cells > 0 =>
                  /\ SameNumber(fig.yield_estimate, true_divide(cells - distinct, cells))
                  /\ Negative(fig.yield_estimate) <=> distinct > cells

\* Two records in different cells summarised on a panel of one cell.
C17_Witness ==
    /\ pc = "kpis"
    /\ panel.panel_rows = 1 /\ panel.panel_cols = 1
    /\ fig.defective_cells = 2
    /\ Negative(fig.yield_estimate)


\* ------------------------------------------------------------------ C20
\* The uploaded sheet lacks a required column.
LacksRequiredColumn(uploaded_file) ==
    /\ uploaded_file # None
    /\ ~(required_columns \subseteq uploaded_file.columns)

\* Nothing of a dataset is on the page or kept in the session.
NothingShownOrStored ==
    /\ rendered.kind \in {"begin", "No data to display"}
    /\ rendered.rows = << >>
    /\ rendered.report = << >>
    /\ session_get(session, "processed_df", << >>) = << >>

\* C20: for a sheet that lacks one of DEFECT_TYPE, UNIT_INDEX_X, UNIT_INDEX_Y,
\* load_data reports an error and returns the empty frame: no record, hence no
\* QUADRANT, plot or jitter value.  A run of app.py on such a sheet, and any run
\* in which load_data reported the error, draws no view, offers no report and
\* leaves no processed dataset in the session.
C20_MissingColumnHalts ==
    /\ \A key \in DOMAIN cache :
           LacksRequiredColumn(key[1]) => cache[key] = << >>
    /\ (page = "main" /\ LacksRequiredColumn(uploaded_files) /\ session.analysis_run)
           => rendered.error = {[missing_one_of |-> required_columns]}
    /\ (page = "main" /\ LacksRequiredColumn(uploaded_files)) => NothingShownOrStored
    /\ rendered.error # {}
           => LacksRequiredColumn(uploaded_files) /\ NothingShownOrStored

\* app.py has run the analysis on a sheet without UNIT_INDEX_Y: load_data was
\* called, its result is cached, and the page holds the error and the warning.
C20_Witness ==
    /\ page = "main"
    /\ LacksRequiredColumn(uploaded_files)
    /\ session.analysis_run
    /\ \E key \in DOMAIN cache : key[1] = uploaded_files /\ cache[key] = << >>
    /\ rendered.error # {}
    /\ rendered.kind = "No data to display"


\* ------------------------------------------------------------------ C21
\* The markers of a figure: the points of its traces, one after the other.
RECURSIVE Markers(_)
Markers(traces) ==
    IF traces = << >> THEN << >>
    ELSE Head(traces).points \o Markers(Tail(traces))

\* C21: a defect view has one trace per defect type of the displayed records,
\* styled or not, so every displayed record is a point of exactly one trace
\* and the figure has as many markers as its title counts defects.
C21_EveryRecordPlotted ==
    (pc \in {"drawn", "redrawn"}) =>
        /\ Len(Markers(fig.traces)) = fig.defects
        /\ \A i \in DOMAIN fig.df :
              Cardinality({k \in DOMAIN fig.traces :
                              /\ fig.traces[k].name = fig.df[i].DEFECT_TYPE
                              /\ \E j \in DOMAIN fig.traces[k].points :
                                    fig.traces[k].points[j] = fig.df[i]}) = 1
        /\ \A k, l \in DOMAIN fig.traces :
              fig.traces[k].name = fig.traces[l].name => k = l

\* The same for the records whose type is a key of defect_style_map.
C21_StyledRecordPlotted ==
    (pc \in {"drawn", "redrawn"}
        /\ \A i \in DOMAIN fig.df :
              \E k \in DOMAIN defect_style_map :
                  defect_style_map[k].dtype = fig.df[i].DEFECT_TYPE) =>
        /\ Len(Markers(fig.traces)) = fig.defects
        /\ \A i \in DOMAIN fig.df :
              \E k \in DOMAIN fig.traces : fig.traces[k].name = fig.df[i].DEFECT_TYPE


\* ------------------------------------------------------------------ C22
\* There is no valid input: nothing is uploaded, or the upload was rejected.
NoValidInput(uploaded_file) ==
    uploaded_file = None \/ LacksRequiredColumn(uploaded_file)

\* C22: without a valid input load_data returns no record, and the page
\* is a blocking no-data state: it shows no view and no report, so no record
\* that was not read from an uploaded file (no sample data).
C22_NoSyntheticData ==
    /\ \A key \in DOMAIN cache : NoValidInput(key[1]) => cache[key] = << >>
    /\ NoValidInput(uploaded_files) =>
          /\ rendered.kind \in {"begin", "No data to display"}
          /\ rendered.rows = << >>
          /\ rendered.report = << >>

\* The same for a rejected upload alone, in app.py.
C22_RejectedUploadBlocks ==
    /\ \A key \in DOMAIN cache : LacksRequiredColumn(key[1]) => cache[key] = << >>
    /\ (page = "main" /\ LacksRequiredColumn(uploaded_files)) =>
          /\ rendered.kind \in {"begin", "No data to display"}
          /\ rendered.rows = << >>
          /\ rendered.report = << >>


\* ------------------------------------------------------------------ C23
\* A dataset is loaded and stored, and the page shows no record of it: the
\* quadrant filter selected none.
EmptyScope ==
    /\ session_get(session, "processed_df", << >>) # << >>
    /\ rendered.kind # "begin"
    /\ rendered.rows = << >>

C23_WitnessDefect ==
    page = "main" /\ EmptyScope /\ rendered.kind = "Defect View"

C23_WitnessPareto ==
    page = "main" /\ EmptyScope /\ rendered.kind = "Pareto View"


\* ------------------------------------------------------------------ C24
\* The names of a sequence of sheets.
SheetNames(sheets) == {sheets[i] : i \in DOMAIN sheets}

\* The 'Quarterly Summary' has the rows Q1, Q2, Q3, Q4 and Total, and Total
\* counts every record of the full set.
SummaryRowsComplete ==
    /\ Len(fig.rows) = 5
    /\ \A i \in 1 .. 4 : fig.rows[i].Quadrant = quadrants[i]
    /\ fig.rows[5].Quadrant = "Total"
    /\ fig.rows[5].Total_Defects = Len(df)

\* C24: generate_excel_report always gives a workbook whose 'Quarterly
\* Summary' has one row for each of Q1, Q2, Q3, Q4, in that order, and then a
\* 'Total' row counting every record of the full set, with a 'Full Defect
\* List' sheet and a 'Qn Top Defects' sheet for each of Q1..Q4.
C24_WorkbookComplete ==
    (pc = "report") =>
        /\ fig.raised = "none"
        /\ SummaryRowsComplete
        /\ {"Quarterly Summary", "Full Defect List", "Q1 Top Defects", "Q2 Top Defects",
            "Q3 Top Defects", "Q4 Top Defects"} \subseteq SheetNames(fig.sheets)

\* What holds with panel_rows * panel_cols not 0: the summary rows, the two
\* fixed sheets, and a 'Qn Top Defects' sheet exactly for the quadrants that
\* have a record.
C24_WorkbookOfPresentQuadrants ==
    (pc = "report" /\ panel.panel_rows * panel.panel_cols # 0) =>
        /\ fig.raised = "none"
        /\ SummaryRowsComplete
        /\ {"Quarterly Summary", "Full Defect List"} \subseteq SheetNames(fig.sheets)
        /\ \A i \in DOMAIN quadrants :
              (top_defects_sheet(quadrants[i]) \in SheetNames(fig.sheets))
                  <=> (quad_count(df, quadrants[i]) > 0)


\* ------------------------------------------------------------------ C25
\* The defect types of a frame.
TypesOf(frame) == {frame[i].DEFECT_TYPE : i \in DOMAIN frame}

\* The value of a series at a defect type: the sum of its y where x is the
\* type (one position, when the type is listed once).
ValueAt(trace, dtype) ==
    LET AtType(i) == IF trace.x[i] = dtype THEN trace.y[i] ELSE 0
    IN  SumSeq([i \in DOMAIN trace.x |-> AtType(i)])

\* C25: in the comparison across quadrants every series that is emitted
\* lists every defect type of the full set once, its value at a type is the
\* number of records of that quadrant and type (0 for a type found only in
\* other quadrants), and for every type the values of the series add up to
\* the number of records of the type labelled Q1..Q4.
C25_SeriesCountPerType ==
    pc = "grouped" =>
        /\ \A q \in DOMAIN fig.traces :
              LET trace == fig.traces[q]
              IN  /\ trace.name \in Quadrants
                  /\ Len(trace.x) = Len(trace.y)
                  /\ \A dtype \in TypesOf(df) :
                        /\ Cardinality({i \in DOMAIN trace.x : trace.x[i] = dtype}) = 1
                        /\ ValueAt(trace, dtype) =
                               TypeCount(display_of(df, trace.name), dtype)
        /\ \A dtype \in TypesOf(df) :
              LET InQuadrants(r) == r.QUADRANT \in Quadrants
              IN  SumSeq([q \in DOMAIN fig.traces |-> ValueAt(fig.traces[q], dtype)])
                     = TypeCount(SelectSeq(df, InQuadrants), dtype)

\* The series of Q1 is emitted and is 0 at 'Short', which is found in Q2
\* only, next to a record that is in no quadrant.
C25_Witness ==
    /\ pc = "grouped"
    /\ \E q \in DOMAIN fig.traces :
          /\ fig.traces[q].name = "Q1"
          /\ \E i \in DOMAIN fig.traces[q].x :
                fig.traces[q].x[i] = "Short" /\ fig.traces[q].y[i] = 0
    /\ \E i \in DOMAIN df : df[i].DEFECT_TYPE = "Short" /\ df[i].QUADRANT = "Q2"
    /\ \E i \in DOMAIN df : df[i].QUADRANT = "Other"


\* ------------------------------------------------------------------ C26
\* C26: with no file uploaded load_data returns sample records, at least
\* one, each with a QUADRANT; for panel_rows, panel_cols >= 2 the QUADRANT the
\* classifier computes from the generated indices is the quadrant the
\* generator drew for the record, so one of Q1..Q4 and never 'Other'.
C26_SampleQuadrantAsDrawn ==
    (pc = "sample" /\ sheet = None) =>
        /\ df # << >>
        /\ Len(df) = Len(fig.quadrant_choices)
        /\ \A i \in DOMAIN df : "QUADRANT" \in DOMAIN df[i]
        /\ (panel.panel_rows >= 2 /\ panel.panel_cols >= 2) =>
              \A i \in DOMAIN df :
                  /\ df[i].QUADRANT = fig.quadrant_choices[i]
                  /\ df[i].QUADRANT \in {"Q1", "Q2", "Q3", "Q4"}

\* A sample record drawn for Q3 in the last cell of the quadrant of a 3 x 2
\* panel, and classified.
C26_Witness ==
    /\ pc = "sample" /\ sheet = None
    /\ panel.panel_rows = 3 /\ panel.panel_cols = 2
    /\ \E i \in DOMAIN df :
          /\ fig.quadrant_choices[i] = "Q3"
          /\ df[i].UNIT_INDEX_X = 5 /\ df[i].UNIT_INDEX_Y = 1
          /\ df[i].QUADRANT = "Q3"


\* ------------------------------------------------------------------ C27
\* app.py waits for Run Analysis: nothing is loaded, nothing is stored and
\* the page only invites to begin.
WaitingForRun ==
    /\ ~session.analysis_run
    /\ session.processed_df = << >>
    /\ cache = << >>
    /\ rendered = Message("begin")

\* C27: app.py loads data and draws a view only while analysis_run is true.
\* While it is false (before the first click on Run Analysis, and after a
\* change of the upload) nothing is loaded and no view is on the page; a
\* change of the upload sets analysis_run to false, empties the processed
\* dataset and clears the cache of load_data in that one step; and
\* analysis_run becomes true again only in a run without a change of the
\* upload, the click on Run Analysis.
C27_RunGatesLoadAndView ==
    /\ [](page = "main" => (session.analysis_run \/ WaitingForRun))
    /\ [][page = "main" =>
             /\ uploaded_files' # uploaded_files => WaitingForRun'
             /\ (~session.analysis_run /\ session'.analysis_run) =>
                   uploaded_files' = uploaded_files
             /\ rendered'.rows # << >> => session'.analysis_run]_vars

\* After a change of the upload app.py waits for Run Analysis.
C27_Witness ==
    /\ page = "main"
    /\ uploaded_files = FileB
    /\ WaitingForRun

\* A view of FileB is on the page: Run Analysis was clicked after its upload.
C27_WitnessRun ==
    /\ page = "main"
    /\ uploaded_files = FileB
    /\ session.analysis_run
    /\ rendered.rows # << >>


\* ------------------------------------------------------------------ C28
\* The record r of the displayed dataset is in the freshly loaded set, the
\* one the report lists, under the same QUADRANT.
SameLabelInReport(r) ==
    \E j \in DOMAIN rendered.report :
        /\ rendered.report[j].UNIT_INDEX_X = r.UNIT_INDEX_X
        /\ rendered.report[j].UNIT_INDEX_Y = r.UNIT_INDEX_Y
        /\ rendered.report[j].DEFECT_TYPE = r.DEFECT_TYPE
        /\ rendered.report[j].QUADRANT = r.QUADRANT

\* C28: at every render of app.py the QUADRANT of each record of the
\* displayed dataset is the one the classifier gives under the panel rows and
\* columns now selected, the label the record has in the freshly loaded set
\* of the report, also after the panel rows were changed under the same
\* upload.
C28_DisplayedLabelsCurrent ==
    (page = "main" /\ session.analysis_run) =>
        /\ \A i \in DOMAIN rendered.rows : SameLabelInReport(rendered.rows[i])
        /\ rendered.report # << >> =>
              \A i \in DOMAIN session.processed_df :
                  SameLabelInReport(session.processed_df[i])

\* What holds for an uploaded file: the stored records are those of the fresh
\* set, in its order, whatever their label.
C28_DisplayedRecordsCurrent ==
    (page = "main" /\ session.analysis_run /\ rendered.report # << >>
        /\ uploaded_files # None) =>
        /\ Len(session.processed_df) = Len(rendered.report)
        /\ \A i \in DOMAIN session.processed_df :
              /\ session.processed_df[i].UNIT_INDEX_X = rendered.report[i].UNIT_INDEX_X
              /\ session.processed_df[i].UNIT_INDEX_Y = rendered.report[i].UNIT_INDEX_Y
              /\ session.processed_df[i].DEFECT_TYPE = rendered.report[i].DEFECT_TYPE


\* ------------------------------------------------------------------ C29
\* The plotted record r lies within the axis ranges of the figure.
InsideAxes(r) ==
    /\ fig.x_axis_range[1] <= r.plot_x /\ r.plot_x <= fig.x_axis_range[2]
    /\ fig.y_axis_range[1] <= r.plot_y /\ r.plot_y <= fig.y_axis_range[2]

\* C29: in the view of one quadrant every plotted record, those of the last
\* local column and of the last local row included, lies within the axis
\* ranges of the figure.
C29_ZoomInsideAxes ==
    (pc \in {"drawn", "redrawn"} /\ fig.quadrant_selection \in Quadrants) =>
        \A i \in DOMAIN fig.df : InsideAxes(fig.df[i])

\* What holds in the view of one quadrant: a record is within the axis ranges
\* exactly when it is neither in the last local column nor in the last local
\* row.
C29_ZoomInsideUnlessLast ==
    (pc \in {"drawn", "redrawn"} /\ fig.quadrant_selection \in Quadrants) =>
        \A i \in DOMAIN fig.df :
            InsideAxes(fig.df[i]) <=>
                /\ fig.df[i].UNIT_INDEX_Y % panel.panel_cols # panel.panel_cols - 1
                /\ fig.df[i].UNIT_INDEX_X % panel.panel_rows # panel.panel_rows - 1

\* In the view of all quadrants every record is within the axis ranges.
C29_AllInsideAxes ==
    (pc \in {"drawn", "redrawn"} /\ fig.quadrant_selection = "All") =>
        \A i \in DOMAIN fig.df : InsideAxes(fig.df[i])


\* ------------------------------------------------------------------ C30
\* The summarised frame is the scope of the selected quadrant: every record
\* has its indices on the sheet and carries the selected label, which is the
\* one the classifier gives under the geometry of the summary.
ClassifiedScope ==
    \A i \in DOMAIN df :
        /\ df[i].UNIT_INDEX_X \in 0 .. (2 * panel.panel_rows - 1)
        /\ df[i].UNIT_INDEX_Y \in 0 .. (2 * panel.panel_cols - 1)
        /\ df[i].QUADRANT = fig.quadrant_selection
        /\ df[i].QUADRANT = Quadrant(df[i].UNIT_INDEX_X, df[i].UNIT_INDEX_Y,
                                     panel.panel_rows, panel.panel_cols)

\* C30: in the summary of one quadrant whose records have their indices on
\* the sheet and were classified under the current geometry, there are at
\* most panel_rows * panel_cols distinct defective cells, so the yield
\* estimate is at least 0 and at most 1.
C30_YieldWithinUnit ==
    (pc = "kpis" /\ fig.quadrant_selection \in Quadrants /\ ClassifiedScope) =>
        /\ fig.total_cells = panel.panel_rows * panel.panel_cols
        /\ fig.defective_cells <= fig.total_cells
        /\ fig.yield_estimate.den > 0
        /\ 0 <= fig.yield_estimate.num
        /\ fig.yield_estimate.num <= fig.yield_estimate.den

\* Two records of the one cell of Q1 of a 1 x 1 panel: the yield is 0.
C30_Witness ==
    /\ pc = "kpis" /\ fig.quadrant_selection = "Q1" /\ ClassifiedScope
    /\ panel.panel_rows = 1 /\ panel.panel_cols = 1
    /\ Len(df) = 2
    /\ fig.defective_cells = 1
    /\ fig.yield_estimate.num = 0

\* Two records in the two cells of Q1 of a 1 x 2 panel.
C30_WitnessFull ==
    /\ pc = "kpis" /\ fig.quadrant_selection = "Q1" /\ ClassifiedScope
    /\ panel.panel_rows = 1 /\ panel.panel_cols = 2
    /\ fig.defective_cells = 2

=========================================================================
